---- MODULE Spec2Model ----
(***************************************************************************)
(* Boot-print decal generators of the repository:                          *)
(*   experiments/generate_boot_print.py        (four-pass synthesizer,     *)
(*                                              mirror, two saves)         *)
(*   experiments/create_rounded_boot_prints.py (ellipse variant, two       *)
(*                                              independent syntheses)     *)
(* and the per-pixel sprite recolourings:                                 *)
(*   experiments/create_enemy_sprites.py       (convert_to_dark)           *)
(*   experiments/add_armband.py                (add_armband_to_left_arm,   *)
(*                                              add_armband_to_right_arm)  *)
(* A pixel buffer is a function from <<x, y>> to an RGBA 4-tuple.  Every   *)
(* loop iteration of the scripts is one step of the state machine.         *)
(***************************************************************************)
EXTENDS Integers, Sequences, FiniteSets, TLC

VARIABLES
    script,      \* which script runs: "generate" or "rounded"
    caller,      \* "main" (create_left_right_boot_prints / main) or "direct"
    width,       \* canvas width  (create_boot_print parameter)
    height,      \* canvas height (create_boot_print parameter)
    pc,          \* position in the script
    img,         \* the buffer under construction (right print / right_boot)
    left,        \* left_print (generate) or left_boot (rounded)
    row,         \* loop variable of the current row loop (y, tread_y)
    cand,        \* number of splatter candidates examined so far
    rng,         \* state of the process-global generator of run 1
    img2,        \* buffer of the second, independent run (determinism)
    rng2,        \* generator state of the second run
    files,       \* files written so far: name -> buffer
    exc,         \* exception that ended the script, "none" if none
    lastPass,    \* pass that made the most recent buffer access (0: none)
    lastReads,   \* texels read by the most recent step
    lastWrites,  \* <<x, y, old colour>> of texels written by the most recent step
    image,       \* the sprite a sprite script was given, as it was given
    col          \* loop variable x of the sprite scripts' pixel loops

vars == <<script, caller, width, height, pc, img, left, row, cand, rng,
          img2, rng2, files, exc, lastPass, lastReads, lastWrites, image, col>>

(***************************************************************************)
(* Bounds of the model                                                     *)
(***************************************************************************)
\* candidates examined by the fourth pass (the source loops range(15))
SplatterCount == 1
\* directly called canvases range over 0..MaxWidth x 0..MaxHeight
MaxWidth == 6
MaxHeight == 7
\* rows of the extent, from the top, that base_y is sampled from
MaxBaseRows == 1

(***************************************************************************)
(* Program constants                                                       *)
(***************************************************************************)
blood_main == <<180, 25, 25, 255>>
blood_edge == <<140, 15, 15, 255>>
transparent == <<0, 0, 0, 0>>
\* variant: a droplet of full alpha
dropletOpaque == <<180, 25, 25, 255>>
droplet == <<180, 25, 25, 150>>
margin_x == 3
margin_y == 3
tread_spacing == 4
tread_gap == 2
tread_inset == 2
edge_width == 2
max_dist == 4
DefaultWidth == 32
DefaultHeight == 48
\* the value of a buffer variable before its Image.new
NoImage == <<<<<<-1>>>>>>

Alpha(c) == c[4]

(***************************************************************************)
(* Arithmetic helpers                                                      *)
(***************************************************************************)
Max(a, b) == IF a >= b THEN a ELSE b
Min(a, b) == IF a <= b THEN a ELSE b

\* Python int() of the quotient a / b, b > 0: truncation toward zero
Trunc(a, b) == IF a >= 0 THEN a \div b ELSE -((-a) \div b)

\* fixed-point scale of the cosine
Scale == 10000

\* math.cos on [0, pi/2), argument and result scaled by Scale
\* (Taylor polynomial through the 8th power, Horner form)
Cos(t) ==
    LET t2 == (t * t) \div Scale
        a  == Scale - t2 \div 56
        b  == Scale - ((t2 * a) \div Scale) \div 30
        c  == Scale - ((t2 * b) \div Scale) \div 12
    IN  Scale - ((t2 * c) \div Scale) \div 2

(***************************************************************************)
(* Geometry of create_boot_print                                           *)
(***************************************************************************)
sole_left == margin_x
sole_right(w) == w - margin_x
sole_top == margin_y
sole_bottom(h) == h - margin_y
sole_height(h) == sole_bottom(h) - sole_top

\* get_width_factor at rel_y = n / d, as a fraction <<p, q>>, q > 0
get_width_factor(n, d) ==
    IF 10 * n < 3 * d
    THEN <<9 * Scale + Cos((52360 * n) \div d), 10 * Scale>>
    ELSE IF 2 * n < d
    THEN <<51 * d - 50 * n, 40 * d>>
    ELSE IF 5 * n < 3 * d
    THEN <<13, 20>>
    ELSE <<4 * d + 15 * n, 20 * d>>

half_width(w) == (sole_right(w) - sole_left) \div 2

\* actual_half of row y: int(half_width * width_factor)
actual_half(w, h, y) ==
    LET f == get_width_factor(y - sole_top, sole_height(h))
    IN  Trunc(half_width(w) * f[1], f[2])

center_x(w) == w \div 2

(***************************************************************************)
(* The buffer: the rows of texels, top row first.  Texel <<x, y>> of the   *)
(* source (origin top-left, counted from 0) is im[y + 1][x + 1].           *)
(***************************************************************************)
Texels(w, h) == (0 .. w - 1) \X (0 .. h - 1)

\* Image.new('RGBA', (w, h), (0, 0, 0, 0))
NewImage(w, h) == [y \in 1 .. h |-> [x \in 1 .. w |-> transparent]]

\* img.getpixel(p)
Pixel(im, p) == im[p[2] + 1][p[1] + 1]

InBounds(w, h, x, y) == 0 <= x /\ x < w /\ 0 <= y /\ y < h

\* img.putpixel(p, c) for every texel p of ps (all in bounds)
PutPixels(im, ps, c) ==
    [y \in 1 .. Len(im) |->
        IF \E p \in ps : p[2] + 1 = y
        THEN [x \in 1 .. Len(im[y]) |->
                 IF <<x - 1, y - 1>> \in ps THEN c ELSE im[y][x]]
        ELSE im[y]]

\* the write record of a step: texel and the colour it held before
Written(im, ps) == {<<p[1], p[2], Pixel(im, p)>> : p \in ps}

\* variant: the reflection about the horizontal axis (FLIP_TOP_BOTTOM)
FlipTopBottom(im, w, h) == [y \in 1 .. h |-> [x \in 1 .. w |-> im[h + 1 - y][x]]]

\* Image.transpose(FLIP_LEFT_RIGHT)
FlipLeftRight(im, w, h) == [y \in 1 .. h |-> [x \in 1 .. w |-> im[y][w + 1 - x]]]

(***************************************************************************)
(* Row spans of the passes of create_boot_print                            *)
(***************************************************************************)
\* first and third pass: clamped span of row y
x_left(w, h, y) == Max(0, center_x(w) - actual_half(w, h, y))
\* variant: a right end one column short of the profile
x_rightShort(w, h, y) == Min(w - 1, center_x(w) + actual_half(w, h, y) - 1)
x_right(w, h, y) == Min(w - 1, center_x(w) + actual_half(w, h, y))

\* texels the first pass writes in row y
FillSpan(w, h, y) == {<<x, y>> : x \in x_left(w, h, y) .. x_right(w, h, y)}

\* second pass: clamped, inset span computed for the gap starting at tread_y
gap_left(w, h, ty) == Max(0, center_x(w) - actual_half(w, h, ty) + tread_inset)
gap_right(w, h, ty) == Min(w - 1, center_x(w) + actual_half(w, h, ty) - tread_inset)

\* rows of the gap starting at tread_y that are cleared
GapRows(h, ty) == {ty + g : g \in {gap \in 0 .. tread_gap - 1 : ty + gap < sole_bottom(h) - 2}}

\* texels the second pass writes for the gap starting at tread_y
GapSpan(w, h, ty) ==
    {<<x, y>> : x \in gap_left(w, h, ty) .. gap_right(w, h, ty), y \in GapRows(h, ty)}

\* third pass: texels of row y whose alpha is read
EdgeReads(w, h, y) ==
    {<<x_left(w, h, y) + o, y>> :
        o \in {e \in 0 .. edge_width - 1 : x_left(w, h, y) + e < w}}
    \cup
    {<<x_right(w, h, y) - o, y>> :
        o \in {e \in 0 .. edge_width - 1 : x_right(w, h, y) - e >= 0}}

\* first row of the tread loop, and the bound of its range
first_tread == sole_top + 3
\* variant: a tread loop that runs up to the last row of the extent
tread_endLate(h) == sole_bottom(h) - 1
tread_end(h) == sole_bottom(h) - 3

(***************************************************************************)
(* The process-global generator and the draws of one splatter candidate    *)
(***************************************************************************)
\* a generator state: <<seed, number of values drawn since seeding>>
Seed == 42
Seeded(s) == <<s, 0>>
Advance(g) == <<g[1], g[2] + 4>>

\* variant: the fourth pass without its random.seed call
ReseedMissing(g) == g

\* random.seed(42) of the fourth pass
Reseed(g) == Seeded(Seed)

\* states the generator may be in when create_boot_print is called
PriorStates == {Seeded(0), Seeded(Seed), <<7, 12>>}

\* dist * cos(angle) and dist * sin(angle), dist in [0, 4): a point of the
\* open disc of radius max_dist.  A coordinate is i + f with i its floor and
\* f = 0 (the coordinate is the integer i) or f = 1 (it lies in (i, i+1)).
Low(i, f) == IF f = 0 THEN (IF i >= 0 THEN i ELSE -i)
             ELSE (IF i >= 0 THEN i ELSE -(i + 1))
Displacements ==
    {d \in ((-max_dist) .. (max_dist - 1)) \X {0, 1}
           \X ((-max_dist) .. (max_dist - 1)) \X {0, 1} :
        Low(d[1], d[2]) * Low(d[1], d[2]) + Low(d[3], d[4]) * Low(d[3], d[4])
            < max_dist * max_dist}

\* rows random.randint(sole_top, sole_bottom - 1) is sampled from
BaseRows(h) == sole_top .. Min(sole_bottom(h) - 1, sole_top + MaxBaseRows - 1)

\* one candidate's draws: <<base_y, random() > 0.5, displacement>>
Draws(h) == BaseRows(h) \X BOOLEAN \X Displacements

\* int(e + r) for the integer e and the real r = i + f: truncation toward 0
IntOf(e, i, f) == IF f = 0 \/ e + i >= 0 THEN e + i ELSE e + i + 1

\* variant: candidates displaced from the centre column instead of an edge
edge_xCentre(w, h, d) == center_x(w)

edge_x(w, h, d) ==
    IF d[2] THEN center_x(w) - actual_half(w, h, d[1])
            ELSE center_x(w) + actual_half(w, h, d[1])

splat_x(w, h, d) == IntOf(edge_x(w, h, d), d[3][1], d[3][2])
splat_y(w, h, d) == IntOf(d[1], d[3][3], d[3][4])

\* the candidate texel <<splat_x, splat_y>> of draws d (lines 134-135)
SplatTexel(w, h, d) == <<splat_x(w, h, d), splat_y(w, h, d)>>

\* the candidate texels of all draws
Candidates(w, h) == {SplatTexel(w, h, d) : d \in Draws(h)}

\* variant: line 137 with the upper limits only
BoundsCheckUpperOnly(w, h, x, y) == x < w /\ y < h

\* line 137: 0 <= splat_x < width and 0 <= splat_y < height
BoundsCheck(w, h, x, y) == 0 <= x /\ x < w /\ 0 <= y /\ y < h

\* texels whose alpha is read for the candidate texel t (line 138)
SplatReads(w, h, t) == IF BoundsCheck(w, h, t[1], t[2]) THEN {t} ELSE {}

\* variant: line 139 without the test of the alpha channel
CommitsAlways(im, p) == TRUE

\* line 139: the texel read is committed: current[3] == 0
Commits(im, p) == Alpha(Pixel(im, p)) = 0

\* texels written for the candidate texel t (line 141)
SplatWrites(im, w, h, t) == {p \in SplatReads(w, h, t) : Commits(im, p)}

\* variant: a first pass that paints the fill colour with alpha 0
AfterFillRowFaded(im, w, h, y) ==
    PutPixels(im, FillSpan(w, h, y), <<180, 25, 25, 0>>)
\* the buffer after each kind of step
AfterFillRow(im, w, h, y) == PutPixels(im, FillSpan(w, h, y), blood_main)
\* variant: a second pass that paints the span instead of clearing it
AfterGapFills(im, w, h, ty) == PutPixels(im, GapSpan(w, h, ty), blood_main)
AfterGap(im, w, h, ty) == PutPixels(im, GapSpan(w, h, ty), transparent)
\* variant: a third pass without the test current[3] > 0
ShadeWritesAll(im, w, h, y) == EdgeReads(w, h, y)
ShadeWrites(im, w, h, y) == {p \in EdgeReads(w, h, y) : Alpha(Pixel(im, p)) > 0}
AfterShadeRow(im, w, h, y) == PutPixels(im, ShadeWrites(im, w, h, y), blood_edge)
\* variant: a fourth pass that puts the droplet on every texel it reads
AfterCandidateOverwrites(im, w, h, t) ==
    IF SplatReads(w, h, t) = {} THEN im
    ELSE [im EXCEPT ![t[2] + 1][t[1] + 1] = droplet]
AfterCandidate(im, w, h, t) ==
    IF SplatWrites(im, w, h, t) = {} THEN im
    ELSE [im EXCEPT ![t[2] + 1][t[1] + 1] = droplet]

(***************************************************************************)
(* Control flow of create_boot_print                                       *)
(***************************************************************************)
\* variant: the third pass placed before the second
SuccessorShadeFirst(p) ==
    CASE p = "new"      -> "fill"
      [] p = "fill"     -> "shade"
      [] p = "shade"    -> "carve"
      [] p = "carve"    -> "seed"
      [] p = "seed"     -> "splatter"
      [] p = "splatter" -> "save"
      [] p = "save"     -> "returned"

\* the statement that follows each stage of create_boot_print
Successor(p) ==
    CASE p = "new"      -> "fill"
      [] p = "fill"     -> "carve"
      [] p = "carve"    -> "shade"
      [] p = "shade"    -> "seed"
      [] p = "seed"     -> "splatter"
      [] p = "splatter" -> "save"
      [] p = "save"     -> "returned"

\* initial value of the loop variable of stage p
FirstRow(p) == IF p = "carve" THEN first_tread ELSE sole_top

\* pass number of a stage
PassOf(p) ==
    CASE p = "fill" -> 1 [] p = "carve" -> 2 [] p = "shade" -> 3
      [] p = "splatter" -> 4 [] OTHER -> 0

RightFile == "boot_print_right"
LeftFile == "boot_print_left"

Goto(p) == /\ pc' = p
           /\ row' = FirstRow(p)

Raise(e) == /\ pc' = "raised"
            /\ exc' = e
            /\ UNCHANGED <<img, left, row, cand, rng, files, lastPass,
                           lastReads, lastWrites, image, col>>

\* a step that touches no texel: its access record is empty, and the pass of
\* the last access is kept
NoAccess ==
    /\ lastReads' = {}
    /\ lastWrites' = {}
    /\ UNCHANGED lastPass

\* a buffer access of pass n: reads rs, writes ws (sets of texels) giving im
Access(n, rs, ws, im) ==
    /\ img' = im
    /\ lastPass' = n
    /\ lastReads' = rs
    /\ lastWrites' = Written(img, ws)

Fixed == UNCHANGED <<script, caller, width, height>>

\* line 21: img = Image.new('RGBA', (width, height), (0, 0, 0, 0))
NewImageStep ==
    /\ script = "generate" /\ pc = "new"
    /\ img' = NewImage(width, height)
    /\ Goto(Successor("new"))
    /\ NoAccess
    /\ UNCHANGED <<left, cand, rng, files, exc>>
    /\ Fixed

\* lines 53-66: one row of the first pass
Pass1Row ==
    /\ script = "generate" /\ pc = "fill"
    /\ row < sole_bottom(height)
    /\ IF FillSpan(width, height, row) \subseteq Texels(width, height)
       THEN /\ Access(1, {}, FillSpan(width, height, row),
                      AfterFillRow(img, width, height, row))
            /\ row' = row + 1
            /\ UNCHANGED <<pc, left, cand, rng, files, exc>>
       ELSE Raise("IndexError")
    /\ Fixed

\* the range of a row loop is exhausted
LoopExit(p, end) ==
    /\ script = "generate" /\ pc = p
    /\ row >= end
    /\ Goto(Successor(p))
    /\ NoAccess
    /\ UNCHANGED <<img, left, cand, rng, files, exc>>
    /\ Fixed

Pass1Exit == LoopExit("fill", sole_bottom(height))

\* lines 72-88: one tread gap of the second pass
Pass2Gap ==
    /\ script = "generate" /\ pc = "carve"
    /\ row < tread_end(height)
    /\ IF GapSpan(width, height, row) \subseteq Texels(width, height)
       THEN /\ Access(2, {}, GapSpan(width, height, row),
                      AfterGap(img, width, height, row))
            /\ row' = row + tread_spacing
            /\ UNCHANGED <<pc, left, cand, rng, files, exc>>
       ELSE Raise("IndexError")
    /\ Fixed

Pass2Exit == LoopExit("carve", tread_end(height))

\* lines 91-111: one row of the third pass
Pass3Row ==
    /\ script = "generate" /\ pc = "shade"
    /\ row < sole_bottom(height)
    /\ IF EdgeReads(width, height, row) \subseteq Texels(width, height)
       THEN /\ Access(3, EdgeReads(width, height, row),
                      ShadeWrites(img, width, height, row),
                      AfterShadeRow(img, width, height, row))
            /\ row' = row + 1
            /\ UNCHANGED <<pc, left, cand, rng, files, exc>>
       ELSE Raise("IndexError")
    /\ Fixed

Pass3Exit == LoopExit("shade", sole_bottom(height))

\* line 115: random.seed(42)
SeedStep ==
    /\ script = "generate" /\ pc = "seed"
    /\ rng' = Reseed(rng)
    /\ Goto(Successor("seed"))
    /\ NoAccess
    /\ UNCHANGED <<img, left, cand, files, exc>>
    /\ Fixed

\* line 120: random.randint(a, b) raises ValueError when a > b
RandintFails(h) == sole_top > sole_bottom(h) - 1

\* lines 116-141: one candidate of the fourth pass, its draws giving texel t
Candidate(t) ==
    /\ script = "generate" /\ pc = "splatter"
    /\ cand < SplatterCount
    /\ ~RandintFails(height)
    /\ IF SplatReads(width, height, t) \subseteq Texels(width, height)
       THEN /\ Access(4, SplatReads(width, height, t),
                      SplatWrites(img, width, height, t),
                      AfterCandidate(img, width, height, t))
            /\ cand' = cand + 1
            /\ rng' = Advance(rng)
            /\ UNCHANGED <<pc, left, row, files, exc>>
       ELSE Raise("IndexError")
    /\ Fixed

\* some candidate of the fourth pass, over every draw
Pass4Candidate ==
    /\ pc = "splatter" /\ cand < SplatterCount
    /\ \E t \in Candidates(width, height) : Candidate(t)

\* line 120 raising: the extent has no row to draw
CandidateRaises ==
    /\ script = "generate" /\ pc = "splatter"
    /\ cand < SplatterCount
    /\ RandintFails(height)
    /\ Raise("ValueError")
    /\ Fixed

Pass4Exit ==
    /\ script = "generate" /\ pc = "splatter"
    /\ cand >= SplatterCount
    /\ Goto(Successor("splatter"))
    /\ NoAccess
    /\ UNCHANGED <<img, left, cand, rng, files, exc>>
    /\ Fixed

\* variant: a save that clears the buffer once the file is written
SaveOkClears(name, im, next) ==
    /\ files' = (name :> im) @@ files
    /\ pc' = next
    /\ img' = NewImage(width, height)
    /\ UNCHANGED <<left, row, cand, rng, exc>>
    /\ NoAccess

\* Image.save(path): the file holds the buffer, or the write fails
SaveOk(name, im, next) ==
    /\ files' = (name :> im) @@ files
    /\ pc' = next
    /\ UNCHANGED <<img, left, row, cand, rng, exc>>
    /\ NoAccess

\* line 144: img.save(output_path)
SaveRight ==
    /\ script = "generate" /\ pc = "save"
    /\ SaveOk(RightFile, img, Successor("save"))
    /\ Fixed

SaveRightFails ==
    /\ script = "generate" /\ pc = "save"
    /\ Raise("IOError")
    /\ Fixed

\* line 148: return img, to create_left_right_boot_prints or to a direct caller
Return ==
    /\ script = "generate" /\ pc = "returned"
    /\ pc' = IF caller = "main" THEN "mirror" ELSE "done"
    /\ NoAccess
    /\ UNCHANGED <<img, left, row, cand, rng, files, exc>>
    /\ Fixed

\* line 161: left_print = right_print.transpose(Image.FLIP_LEFT_RIGHT)
Mirror ==
    /\ script = "generate" /\ pc = "mirror"
    /\ left' = FlipLeftRight(img, width, height)
    /\ pc' = "save_left"
    /\ NoAccess
    /\ UNCHANGED <<img, row, cand, rng, files, exc>>
    /\ Fixed

\* line 162: left_print.save(...)
SaveLeft ==
    /\ script = "generate" /\ pc = "save_left"
    /\ SaveOk(LeftFile, left, "done")
    /\ Fixed

SaveLeftFails ==
    /\ script = "generate" /\ pc = "save_left"
    /\ Raise("IOError")
    /\ Fixed

(***************************************************************************)
(* create_rounded_boot_prints.py                                           *)
(***************************************************************************)
CANVAS_WIDTH == 22
CANVAS_HEIGHT == 40
BOOT_COLOR == <<139, 0, 0, 255>>
boot_height == 18
heel_width == 7
heel_height == 6
arch_width == 4
arch_height == 4
ball_width == 8
ball_height == 6
toe_width == 7
toe_height == 5

cx == CANVAS_WIDTH \div 2
cy == CANVAS_HEIGHT \div 2
start_y == cy - boot_height \div 2

\* offset = 1 if is_left else -1
offset(is_left) == IF is_left THEN 1 ELSE -1

\* ImageDraw.ellipse([x0, y0, x1, y1], fill): the texels of the canvas inside
\* the ellipse inscribed in the bounding box, the box's last row and column
\* included
Ellipse(x0, y0, x1, y1) ==
    {p \in Texels(CANVAS_WIDTH, CANVAS_HEIGHT) :
        /\ x0 <= p[1] /\ p[1] <= x1 /\ y0 <= p[2] /\ p[2] <= y1
        /\ (2 * p[1] - x0 - x1) * (2 * p[1] - x0 - x1) * (y1 - y0) * (y1 - y0)
           + (2 * p[2] - y0 - y1) * (2 * p[2] - y0 - y1) * (x1 - x0) * (x1 - x0)
           <= (x1 - x0) * (x1 - x0) * (y1 - y0) * (y1 - y0)}

heel_x(is_left) == cx - heel_width \div 2 + offset(is_left)
heel_y == start_y + boot_height - heel_height
arch_x(is_left) == cx - arch_width \div 2 + offset(is_left)
arch_y == start_y + boot_height - heel_height - arch_height + 2
ball_x(is_left) == cx - ball_width \div 2 - offset(is_left)
ball_y == start_y + 4
toe_x(is_left) == cx - toe_width \div 2 - offset(is_left)
toe_y == start_y

\* the texels of the ellipse drawn at stage p
SectionEllipse(p, is_left) ==
    CASE p = "r_heel" ->
           Ellipse(heel_x(is_left), heel_y,
                   heel_x(is_left) + heel_width, heel_y + heel_height)
      [] p = "r_arch" ->
           Ellipse(arch_x(is_left), arch_y,
                   arch_x(is_left) + arch_width, arch_y + arch_height + 2)
      [] p = "r_ball" ->
           Ellipse(ball_x(is_left), ball_y,
                   ball_x(is_left) + ball_width, ball_y + ball_height)
      [] p = "r_toe" ->
           Ellipse(toe_x(is_left), toe_y,
                   toe_x(is_left) + toe_width, toe_y + toe_height)

\* the statement that follows each stage of the rounded create_boot_print
RSuccessor(p) ==
    CASE p = "r_new" -> "r_heel" [] p = "r_heel" -> "r_arch"
      [] p = "r_arch" -> "r_ball" [] p = "r_ball" -> "r_toe"
      [] p = "r_toe" -> "r_connect" [] p = "r_connect" -> "r_return"

\* rows of the connecting-pixel loop
connect_first == start_y + 3
connect_end == start_y + boot_height - 2

\* width of the connecting span of row y
connect_width(y) ==
    IF y > start_y + boot_height - heel_height THEN 5
    ELSE IF y > start_y + boot_height - heel_height - arch_height + 1 THEN 3
    ELSE IF y > start_y + 6 THEN 4
    ELSE 6

\* variant: a connecting span shifted like the ellipses of the call
ConnectSpanShifted(y) ==
    {<<x, y>> : x \in {c \in (cx + offset(left = NoImage) - connect_width(y) \div 2) ..
                             (cx + offset(left = NoImage) + connect_width(y) \div 2) :
                        InBounds(CANVAS_WIDTH, CANVAS_HEIGHT, c, y)}}

\* texels the connecting-pixel loop writes in row y
ConnectSpan(y) ==
    {<<x, y>> : x \in {c \in (cx - connect_width(y) \div 2) ..
                             (cx + connect_width(y) \div 2) :
                        InBounds(CANVAS_WIDTH, CANVAS_HEIGHT, c, y)}}

\* the call in progress is create_boot_print(is_left=True)
IsLeftCall == left = NoImage

\* line 31: img = Image.new('RGBA', (CANVAS_WIDTH, CANVAS_HEIGHT), TRANSPARENT)
RNewImage ==
    /\ script = "rounded" /\ pc = "r_new"
    /\ img' = NewImage(CANVAS_WIDTH, CANVAS_HEIGHT)
    /\ pc' = RSuccessor("r_new")
    /\ NoAccess
    /\ UNCHANGED <<left, row, cand, rng, files, exc>>
    /\ Fixed

\* lines 56, 63, 70, 77: draw.ellipse of one section
RSection ==
    /\ script = "rounded" /\ pc \in {"r_heel", "r_arch", "r_ball", "r_toe"}
    /\ Access(5, {}, SectionEllipse(pc, IsLeftCall),
              PutPixels(img, SectionEllipse(pc, IsLeftCall), BOOT_COLOR))
    /\ pc' = RSuccessor(pc)
    /\ row' = connect_first
    /\ UNCHANGED <<left, cand, rng, files, exc>>
    /\ Fixed

\* lines 81-100: one row of the connecting-pixel loop
RConnectRow ==
    /\ script = "rounded" /\ pc = "r_connect"
    /\ row < connect_end
    /\ Access(6, {}, ConnectSpan(row), PutPixels(img, ConnectSpan(row), BOOT_COLOR))
    /\ row' = row + 1
    /\ UNCHANGED <<pc, left, cand, rng, files, exc>>
    /\ Fixed

RConnectExit ==
    /\ script = "rounded" /\ pc = "r_connect"
    /\ row >= connect_end
    /\ pc' = RSuccessor("r_connect")
    /\ NoAccess
    /\ UNCHANGED <<img, left, row, cand, rng, files, exc>>
    /\ Fixed

\* lines 107-108: left_boot = create_boot_print(True), then
\* right_boot = create_boot_print(False)
RReturn ==
    /\ script = "rounded" /\ pc = "r_return"
    /\ IF IsLeftCall
       THEN /\ left' = img
            /\ pc' = "r_new"
       ELSE /\ left' = left
            /\ pc' = "r_save_left"
    /\ NoAccess
    /\ UNCHANGED <<img, row, cand, rng, files, exc>>
    /\ Fixed

\* line 116: left_boot.save(left_path)
RSaveLeft ==
    /\ script = "rounded" /\ pc = "r_save_left"
    /\ SaveOk(LeftFile, left, "r_save_right")
    /\ Fixed

\* line 117: right_boot.save(right_path)
RSaveRight ==
    /\ script = "rounded" /\ pc = "r_save_right"
    /\ SaveOk(RightFile, img, "done")
    /\ Fixed

RSaveFails ==
    /\ script = "rounded" /\ pc \in {"r_save_left", "r_save_right"}
    /\ Raise("IOError")
    /\ Fixed

(***************************************************************************)
(* Sprites of the per-pixel scripts.  A sprite is the rows of its pixels;  *)
(* a pixel of an RGBA sprite is a 4-tuple, one of an RGB sprite a 3-tuple. *)
(***************************************************************************)
\* largest sprite given to convert_to_dark, and tallest arm sprite
MaxSpriteWidth == 2
MaxSpriteHeight == 2

GREEN_DARK == <<35, 55, 35, 255>>
GREEN_MID == <<55, 80, 50, 255>>
GREEN_LIGHT == <<75, 100, 65, 255>>
RED_ARMBAND_MAIN == <<180, 40, 40, 255>>
RED_ARMBAND_DARK == <<140, 30, 30, 255>>
RED_ARMBAND_LIGHT == <<210, 60, 60, 255>>
armband_x_start == 10
armband_x_end == 11

\* the colours the sprites are made of: empty, the three greens, colours of
\* alpha 0 that are not black, colours on either side of the brightness
\* limits, and colours of partial alpha
SpriteColours ==
    << <<0, 0, 0, 0>>, GREEN_DARK, GREEN_MID, GREEN_LIGHT, <<35, 55, 35, 0>>,
       <<50, 50, 49, 255>>, <<50, 50, 50, 128>>, <<80, 80, 79, 255>>,
       <<80, 80, 80, 1>>, <<1, 1, 1, 255>>, <<255, 255, 255, 255>>,
       <<0, 72, 24, 200>>, <<35, 55, 35, 128>> >>

\* Image.open: a sprite of size w x h in mode m, its colours laid out from
\* the s-th colour on
Sprite(m, w, h, s) ==
    [y \in 1 .. h |-> [x \in 1 .. w |->
        LET c == SpriteColours[((x + 3 * y + s) % Len(SpriteColours)) + 1]
        IN  IF m = "RGBA" THEN c ELSE <<c[1], c[2], c[3]>>]]

\* Image.convert('RGBA'): a copy; a pixel without alpha becomes opaque
ToRGBA(c) == IF Len(c) = 4 THEN c ELSE <<c[1], c[2], c[3], 255>>
Convert(im) == [y \in 1 .. Len(im) |-> [x \in 1 .. Len(im[y]) |-> ToRGBA(im[y][x])]]

\* colours of SpriteColours on which the double-precision sum
\* 0.299 * r + 0.587 * g + 0.114 * b falls just below the integer it equals
\* in exact arithmetic
RoundsDown == {<<1, 1, 1>>, <<0, 72, 24>>}

\* line 29: gray = int(0.299 * r + 0.587 * g + 0.114 * b)
Gray(r, g, b) ==
    (299 * r + 587 * g + 114 * b) \div 1000
        - (IF <<r, g, b>> \in RoundsDown THEN 1 ELSE 0)

\* variant: a darkened pixel made opaque
DarkPixelOpaque(c) ==
    LET dark == Gray(c[1], c[2], c[3]) \div 4
    IN  <<dark, dark, dark, 255>>

\* lines 29-32: dark = int(gray * 0.25); (dark, dark, dark, a)
DarkPixel(c) ==
    LET dark == Gray(c[1], c[2], c[3]) \div 4
    IN  <<dark, dark, dark, c[4]>>

\* line 27 of create_enemy_sprites.py, line 48 of add_armband.py
NonTransparent(c) == Len(c) = 4 /\ c[4] > 0

\* variant: an armband colour that keeps the alpha of the pixel
ArmbandPixelKeepsAlpha(c) ==
    <<RED_ARMBAND_MAIN[1], RED_ARMBAND_MAIN[2], RED_ARMBAND_MAIN[3], c[4]>>

\* lines 51-65 and 92-106 of add_armband.py: the colour written over the
\* non-transparent pixel c; brightness = (r + g + b) / 3
ArmbandPixel(c) ==
    IF c = GREEN_DARK THEN RED_ARMBAND_DARK
    ELSE IF c = GREEN_MID THEN RED_ARMBAND_MAIN
    ELSE IF c = GREEN_LIGHT THEN RED_ARMBAND_LIGHT
    ELSE IF c[1] + c[2] + c[3] < 3 * 50 THEN RED_ARMBAND_DARK
    ELSE IF c[1] + c[2] + c[3] < 3 * 80 THEN RED_ARMBAND_MAIN
    ELSE RED_ARMBAND_LIGHT

\* the pixel the loops are at is written when it is non-transparent
PixelWrites(im) ==
    IF NonTransparent(Pixel(im, <<col, row>>)) THEN {<<col, row>>} ELSE {}

SpriteFixed ==
    /\ UNCHANGED <<script, caller, width, height, image>>
    /\ UNCHANGED <<left, cand, rng, img2, rng2, files>>

\* line 21 of create_enemy_sprites.py: img = image.convert('RGBA')
DarkConvert ==
    /\ script = "enemy" /\ pc = "e_convert"
    /\ img' = Convert(image)
    /\ pc' = "e_loop" /\ row' = 0 /\ col' = 0
    /\ NoAccess
    /\ UNCHANGED exc
    /\ SpriteFixed

\* lines 24-32: one pixel of convert_to_dark
DarkStep ==
    /\ script = "enemy" /\ pc = "e_loop"
    /\ row < height /\ col < width
    /\ Access(7, {<<col, row>>}, PixelWrites(img),
              PutPixels(img, PixelWrites(img), DarkPixel(Pixel(img, <<col, row>>))))
    /\ IF col + 1 < width
       THEN col' = col + 1 /\ row' = row
       ELSE col' = 0 /\ row' = row + 1
    /\ UNCHANGED <<pc, exc>>
    /\ SpriteFixed

\* line 34: return img
DarkReturn ==
    /\ script = "enemy" /\ pc = "e_loop"
    /\ row >= height \/ width = 0
    /\ pc' = "done"
    /\ NoAccess
    /\ UNCHANGED <<img, row, col, exc>>
    /\ SpriteFixed

ArmbandScripts == {"armband_left", "armband_right"}

\* lines 172 and 179 of add_armband.py: main passes the converted sprite;
\* a direct caller passes the sprite as it is
ArmbandOpen ==
    /\ script \in ArmbandScripts /\ pc = "a_open"
    /\ img' = IF caller = "main" THEN Convert(image) ELSE image
    /\ pc' = "a_loop" /\ row' = 0 /\ col' = armband_x_start
    /\ NoAccess
    /\ UNCHANGED exc
    /\ SpriteFixed

\* lines 44-65 and 85-106: one pixel of add_armband_to_left_arm or of
\* add_armband_to_right_arm; pixels[x, y] raises outside the sprite
ArmbandStep ==
    /\ script \in ArmbandScripts /\ pc = "a_loop"
    /\ row < height
    /\ IF InBounds(width, height, col, row)
       THEN /\ Access(8, {<<col, row>>}, PixelWrites(img),
                      PutPixels(img, PixelWrites(img),
                                ArmbandPixel(Pixel(img, <<col, row>>))))
            /\ IF col < armband_x_end
               THEN col' = col + 1 /\ row' = row
               ELSE col' = armband_x_start /\ row' = row + 1
            /\ UNCHANGED <<pc, exc>>
       ELSE Raise("IndexError")
    /\ SpriteFixed

\* lines 67 and 108: return img
ArmbandReturn ==
    /\ script \in ArmbandScripts /\ pc = "a_loop"
    /\ row >= height
    /\ pc' = "done"
    /\ NoAccess
    /\ UNCHANGED <<img, row, col, exc>>
    /\ SpriteFixed

(***************************************************************************)
(* Specification: one run of either script                                 *)
(***************************************************************************)
\* canvases create_boot_print is called with directly, besides the small
\* ones: a wide and low one, a narrow one with several rows, and the 22x40
\* canvas of the end-to-end scenario
ExtraSizes == {<<36, 14>>, <<4, 10>>, <<22, 40>>}
DirectSizes == ((0 .. MaxWidth) \X (0 .. MaxHeight)) \cup ExtraSizes

InitCommon ==
    /\ img = NoImage /\ left = NoImage
    /\ row = 0 /\ cand = 0 /\ col = 0
    /\ rng \in PriorStates
    /\ files = <<>>
    /\ exc = "none"
    /\ lastPass = 0 /\ lastReads = {} /\ lastWrites = {}

Init ==
    /\ InitCommon
    /\ img2 = NoImage /\ rng2 = Seeded(0)
    /\ image = NoImage
    /\ \/ /\ script = "generate" /\ caller = "main" /\ pc = "new"
          /\ width = DefaultWidth /\ height = DefaultHeight
       \/ /\ script = "generate" /\ caller = "direct" /\ pc = "new"
          /\ \E s \in DirectSizes : width = s[1] /\ height = s[2]
       \/ /\ script = "rounded" /\ caller = "main" /\ pc = "r_new"
          /\ width = CANVAS_WIDTH /\ height = CANVAS_HEIGHT

\* only one run takes place
Solo == UNCHANGED <<img2, rng2, image, col>>

Next ==
    \/ NewImageStep /\ Solo
    \/ Pass1Row /\ Solo
    \/ Pass1Exit /\ Solo
    \/ Pass2Gap /\ Solo
    \/ Pass2Exit /\ Solo
    \/ Pass3Row /\ Solo
    \/ Pass3Exit /\ Solo
    \/ SeedStep /\ Solo
    \/ Pass4Candidate /\ Solo
    \/ CandidateRaises /\ Solo
    \/ Pass4Exit /\ Solo
    \/ SaveRight /\ Solo
    \/ SaveRightFails /\ Solo
    \/ Return /\ Solo
    \/ Mirror /\ Solo
    \/ SaveLeft /\ Solo
    \/ SaveLeftFails /\ Solo
    \/ RNewImage /\ Solo
    \/ RSection /\ Solo
    \/ RConnectRow /\ Solo
    \/ RConnectExit /\ Solo
    \/ RReturn /\ Solo
    \/ RSaveLeft /\ Solo
    \/ RSaveRight /\ Solo
    \/ RSaveFails /\ Solo

Spec == Init /\ [][Next]_vars

(***************************************************************************)
(* Specification: two independent runs of create_boot_print with the same  *)
(* width and height, executed statement by statement side by side.  The    *)
(* generator is a function of its state: the two runs draw the same values *)
(* exactly when their generators are in the same state.                    *)
(***************************************************************************)
InitDet ==
    /\ InitCommon
    /\ img2 = NoImage /\ rng2 \in PriorStates
    /\ image = NoImage
    /\ script = "generate" /\ caller = "direct" /\ pc = "new"
    /\ \E s \in DirectSizes : width = s[1] /\ height = s[2]

TwinNew ==
    img2' = NewImage(width, height) /\ UNCHANGED <<rng2, image, col>>
TwinFill ==
    img2' = AfterFillRow(img2, width, height, row) /\ UNCHANGED <<rng2, image, col>>
TwinGap ==
    img2' = AfterGap(img2, width, height, row) /\ UNCHANGED <<rng2, image, col>>
TwinShade ==
    img2' = AfterShadeRow(img2, width, height, row) /\ UNCHANGED <<rng2, image, col>>
TwinSeed == rng2' = Reseed(rng2) /\ UNCHANGED <<img2, image, col>>
TwinCandidate(t) ==
    /\ img2' = AfterCandidate(img2, width, height, t)
    /\ rng2' = Advance(rng2)
    /\ UNCHANGED <<image, col>>

\* the candidate texels the draws of the second run can give, when those of
\* the first run give t
TwinTexels(t) == IF rng2 = rng THEN {t} ELSE Candidates(width, height)

NextDet ==
    \/ NewImageStep /\ TwinNew
    \/ Pass1Row /\ TwinFill
    \/ Pass1Exit /\ Solo
    \/ Pass2Gap /\ TwinGap
    \/ Pass2Exit /\ Solo
    \/ Pass3Row /\ TwinShade
    \/ Pass3Exit /\ Solo
    \/ SeedStep /\ TwinSeed
    \/ /\ pc = "splatter" /\ cand < SplatterCount
       /\ \E t \in Candidates(width, height) : \E t2 \in TwinTexels(t) :
            Candidate(t) /\ TwinCandidate(t2)
    \/ CandidateRaises /\ Solo
    \/ Pass4Exit /\ Solo
    \/ SaveRight /\ Solo
    \/ SaveRightFails /\ Solo
    \/ Return /\ Solo

SpecDet == InitDet /\ [][NextDet]_vars

(***************************************************************************)
(* Specification: one call of convert_to_dark or of an armband function    *)
(***************************************************************************)
SpriteModes == {"RGBA", "RGB"}
\* widths of the arm sprites: too narrow for the armband columns, reaching
\* the first of them only, reaching both, and the 20 columns of the assets
ArmWidths == {armband_x_start, armband_x_end, armband_x_end + 1, 20}

InitSprite ==
    /\ InitCommon /\ rng = Seeded(0)
    /\ img2 = NoImage /\ rng2 = Seeded(0)
    /\ \E m \in SpriteModes, s \in 0 .. Len(SpriteColours) - 1 :
         \/ /\ script = "enemy" /\ caller = "direct" /\ pc = "e_convert"
            /\ \E w \in 0 .. MaxSpriteWidth, h \in 0 .. MaxSpriteHeight :
                  width = w /\ height = h /\ image = Sprite(m, w, h, s)
         \/ /\ script \in ArmbandScripts /\ caller \in {"main", "direct"}
            /\ pc = "a_open"
            /\ \E w \in ArmWidths, h \in 0 .. MaxSpriteHeight :
                  width = w /\ height = h /\ image = Sprite(m, w, h, s)

NextSprite ==
    \/ DarkConvert
    \/ DarkStep
    \/ DarkReturn
    \/ ArmbandOpen
    \/ ArmbandStep
    \/ ArmbandReturn

SpecSprite == InitSprite /\ [][NextSprite]_vars

(***************************************************************************)
(* Vocabulary of the properties                                            *)
(***************************************************************************)
\* texels of non-zero alpha, and texels of full alpha
Filled(im, w, h) == {p \in Texels(w, h) : Alpha(Pixel(im, p)) > 0}
Solid(im, w, h) == {p \in Texels(w, h) : Alpha(Pixel(im, p)) = 255}

\* horizontal reflection of a texel
Reflect(w, p) == <<w - 1 - p[1], p[2]>>

\* im is the mirror image of jm
IsMirror(im, jm, w, h) ==
    \A p \in Texels(w, h) : Pixel(im, p) = Pixel(jm, Reflect(w, p))

BothFiles == LeftFile \in DOMAIN files /\ RightFile \in DOMAIN files

\* the silhouette of the first pass, all rows of the extent
Filled1(w, h) ==
    UNION {FillSpan(w, h, y) : y \in sole_top .. sole_bottom(h) - 1}

\* the rows the tread loop visits, and everything it clears
TreadRows(h) ==
    {ty \in first_tread .. tread_end(h) - 1 :
        (ty - first_tread) % tread_spacing = 0}
AllGapSpans(w, h) == UNION {GapSpan(w, h, ty) : ty \in TreadRows(h)}

\* the second pass has finished and the third has not touched the buffer
AfterCarve == script = "generate" /\ pc = "shade" /\ row = sole_top

\* position of a stage in create_left_right_boot_prints
Phase(p) ==
    CASE p = "new" -> 0 [] p = "fill" -> 1 [] p = "carve" -> 2
      [] p = "shade" -> 3 [] p = "seed" -> 4 [] p = "splatter" -> 5
      [] p = "save" -> 6 [] p = "returned" -> 7 [] p = "mirror" -> 8
      [] p = "save_left" -> 9 [] p = "done" -> 10 [] OTHER -> 11

(***************************************************************************)
(* C1  Mirror invariant of generate_boot_print                             *)
(***************************************************************************)
\* C1: after create_left_right_boot_prints, every texel of the left buffer
\* equals, in all four channels, the texel of the right buffer in the
\* reflected column, for every outcome of the splatter pass; the same holds
\* of the two files written.
MirrorInvariant ==
    script = "generate" =>
        /\ pc \in {"save_left", "done"} /\ caller = "main"
              => IsMirror(left, img, width, height)
        /\ BothFiles
              => IsMirror(files[LeftFile], files[RightFile], width, height)

\* both files are written and a droplet makes the right buffer asymmetric
MirrorWitness ==
    /\ script = "generate" /\ pc = "done" /\ BothFiles
    /\ \E p \in Texels(width, height) :
          /\ Pixel(img, p) = droplet
          /\ Pixel(img, Reflect(width, p)) # droplet

(***************************************************************************)
(* C2  Left is derived from right in every script variant                  *)
(***************************************************************************)
\* C2: in every script variant that emits boot_print_left and
\* boot_print_right, the two emitted textures are exact mirror images of
\* each other (the left one being derived from the right one by reflection).
LeftDerivedByReflection ==
    BothFiles => IsMirror(files[LeftFile], files[RightFile], width, height)

(***************************************************************************)
(* C3  Determinism                                                         *)
(***************************************************************************)
\* C3: two runs of create_boot_print with the same width and height end with
\* identical buffers (and so identical files), whatever state the generator
\* was in before each run.
Determinism ==
    pc \in {"save", "returned", "done"} =>
        /\ img2 = img
        /\ RightFile \in DOMAIN files => files[RightFile] = img2

\* both runs finished, and the splatter pass committed a droplet
DeterminismWitness ==
    /\ pc = "done" /\ img2 = img
    /\ Solid(img, width, height) # {}
    /\ \E p \in Texels(width, height) : Pixel(img, p) = droplet

(***************************************************************************)
(* C4  Splatter respects occupancy                                         *)
(***************************************************************************)
\* C4: every texel written by the fourth pass had alpha 0 immediately before
\* the write, and no step of the fourth pass changes the number of solid
\* (alpha 255) texels.
SplatterRespectsOccupancy ==
    /\ [](lastPass = 4 => \A wr \in lastWrites : Alpha(wr[3]) = 0)
    /\ [][script = "generate" /\ pc = "splatter" =>
             Cardinality(Solid(img', width, height))
               = Cardinality(Solid(img, width, height))]_vars

\* the fourth pass committed a droplet next to a sole that has solid texels
SplatterWitness ==
    /\ lastPass = 4 /\ lastWrites # {}
    /\ Solid(img, width, height) # {}

(***************************************************************************)
(* C5  Carving only converts filled texels                                 *)
(***************************************************************************)
\* C5: every texel the second pass writes, in both rows of every tread gap,
\* was filled by the first pass.
CarveOnlyFilled ==
    lastPass = 2 => \A wr \in lastWrites : wr[3] = blood_main

(***************************************************************************)
(* C6  Carving never fills                                                 *)
(***************************************************************************)
\* every texel outside the spans the second pass clears is as the first pass
\* produced it
CarveFrame ==
    \A p \in Texels(width, height) \ AllGapSpans(width, height) :
        Pixel(img, p) = IF p \in Filled1(width, height)
                        THEN blood_main ELSE transparent

AllOrNothing ==
    script = "generate" /\ caller = "main" /\ pc \in {"done", "raised"} =>
        (RightFile \in DOMAIN files <=> LeftFile \in DOMAIN files)

(***************************************************************************)
(* C8  Too-small canvases fail before allocation                           *)
(***************************************************************************)
\* C8: when height is less than twice margin_y, create_boot_print fails
\* before the buffer is allocated: no buffer exists, no pass has run and no
\* file is written.
FailsBeforeAllocation ==
    script = "generate" /\ height < 2 * margin_y =>
        /\ img = NoImage
        /\ pc \in {"new", "raised"}
        /\ files = <<>>

(***************************************************************************)
(* C9  Every access is in bounds                                           *)
(***************************************************************************)
\* C9: for every width >= 0 and every height > 2 * margin_y, every texel read
\* or written by the four passes lies inside the buffer and no pass raises.
PassesStayInBounds ==
    script = "generate" /\ height > 2 * margin_y =>
        /\ lastReads \subseteq Texels(width, height)
        /\ {<<wr[1], wr[2]>> : wr \in lastWrites} \subseteq Texels(width, height)
        /\ exc \notin {"IndexError", "ValueError"}

\* the last candidate of the fourth pass, on a canvas with a silhouette, lay
\* outside the buffer and was dropped without a read
BoundsWitness ==
    /\ script = "generate" /\ height > 2 * margin_y
    /\ pc = "splatter" /\ cand = SplatterCount /\ exc = "none"
    /\ Filled(img, width, height) # {}
    /\ lastPass = 4 /\ lastReads = {}

(***************************************************************************)
(* C10 Strict linear pipeline                                              *)
(***************************************************************************)
\* C10: the stages run once each in the order Fill, Carve, Shade, Splatter,
\* Save: no step goes back to an earlier stage or skips one, no access of a
\* pass follows an access of a later pass, the third pass never changes
\* which texels are filled (so it reads the classification the second pass
\* left), and the buffer is saved only when all candidates of the fourth
\* pass have been examined.
StrictPipeline ==
    /\ [][script = "generate" =>
             /\ Phase(pc') >= Phase(pc)
             /\ \/ Phase(pc') <= Phase(pc) + 1
                \/ pc' = "raised"
                \/ pc = "returned" /\ pc' = "done"
             /\ lastPass' >= lastPass
             /\ lastPass' # lastPass => lastPass' = PassOf(pc)
             /\ pc = "shade" =>
                   Filled(img', width, height) = Filled(img, width, height)]_vars
    /\ [](script = "generate" /\ RightFile \in DOMAIN files =>
             cand = SplatterCount /\ lastPass = 4 /\ files[RightFile] = img)

\* a canvas with tread gaps went through all four passes and was saved
PipelineWitness ==
    /\ script = "generate" /\ RightFile \in DOMAIN files
    /\ AllGapSpans(width, height) # {}
    /\ lastPass = 4
    /\ \E p \in Texels(width, height) : Pixel(img, p) = droplet

(***************************************************************************)
(* C11 Range of the profile and of the row half-widths                     *)
(***************************************************************************)
\* rows of the extent
Extent(h) == sole_top .. sole_bottom(h) - 1

\* the width factor of row y, as a fraction
width_factor(h, y) == get_width_factor(y - sole_top, sole_height(h))

\* floor(factor * maxHalfWidth) for the factor f and maxHalfWidth m
FloorOf(f, m) == (m * f[1]) \div f[2]

\* the first pass has finished and the second has not touched the buffer
AfterFill == script = "generate" /\ pc = "carve" /\ row = first_tread

\* C11: for every row of the extent the width factor lies in [0.65, 1.0] and
\* the row half-width lies between floor(0.65 * maxHalfWidth) and
\* maxHalfWidth (in either order of the two).
ProfileRange ==
    AfterFill =>
        \A y \in Extent(height) :
            /\ 13 * width_factor(height, y)[2] <= 20 * width_factor(height, y)[1]
            /\ width_factor(height, y)[1] <= width_factor(height, y)[2]
            /\ Min(FloorOf(<<13, 20>>, half_width(width)), half_width(width))
                  <= actual_half(width, height, y)
            /\ actual_half(width, height, y)
                  <= Max(FloorOf(<<13, 20>>, half_width(width)), half_width(width))

(***************************************************************************)
(* C12 Monotonicity of the profile and of the row half-widths              *)
(***************************************************************************)
\* a <= b for the fractions a and b (positive denominators)
LeqFrac(a, b) ==
    IF a[2] = b[2] THEN a[1] <= b[1] ELSE a[1] * b[2] <= b[1] * a[2]

\* C12: from each row of the extent to the next, the width factor and the
\* row half-width do not increase while the next row is at rel_y <= 0.60,
\* and do not decrease once the row is at rel_y >= 0.60.
HalfWidthsMonotone ==
    AfterFill =>
        \A y \in Extent(height) \ {sole_bottom(height) - 1} :
            /\ 5 * (y + 1 - sole_top) <= 3 * sole_height(height) =>
                  /\ LeqFrac(width_factor(height, y + 1), width_factor(height, y))
                  /\ actual_half(width, height, y + 1)
                        <= actual_half(width, height, y)
            /\ 5 * (y - sole_top) >= 3 * sole_height(height) =>
                  /\ LeqFrac(width_factor(height, y), width_factor(height, y + 1))
                  /\ actual_half(width, height, y)
                        <= actual_half(width, height, y + 1)

(***************************************************************************)
(* C13 End-to-end scenario on the 22x40 canvas                             *)
(***************************************************************************)
\* columns of row y holding a solid texel, and the width of the span from
\* the leftmost to the rightmost of them
SolidColumns(im, w, y) == {x \in 0 .. w - 1 : Alpha(Pixel(im, <<x, y>>)) = 255}
SpanWidth(im, w, y) ==
    IF SolidColumns(im, w, y) = {} THEN 0
    ELSE (CHOOSE b \in SolidColumns(im, w, y) :
             \A x \in SolidColumns(im, w, y) : x <= b)
         - (CHOOSE a \in SolidColumns(im, w, y) :
             \A x \in SolidColumns(im, w, y) : a <= x)
         + 1

\* rows of the extent less than one row away from rel_y = 0.55
ArchRows(h) ==
    {y \in Extent(h) :
        /\ 20 * (y - sole_top) - 11 * sole_height(h) < 20
        /\ 11 * sole_height(h) - 20 * (y - sole_top) < 20}

\* all four passes have run to the end
Finished == script = "generate" /\ pc \in {"save", "returned", "done"}

\* C13: on the 22x40 canvas the finished buffer has a filled span of 10 +/- 1
\* texels in the toe-tip row (rel_y = 0) and of 6 +/- 1 texels in a row at
\* rel_y = 0.55.
ScenarioWidths ==
    Finished /\ width = 22 /\ height = 40 =>
        /\ SpanWidth(img, width, sole_top) \in 9 .. 11
        /\ \E y \in ArchRows(height) : SpanWidth(img, width, y) \in 5 .. 7

(***************************************************************************)
(* C14 Postcondition of the first pass                                     *)
(***************************************************************************)
\* texel p lies in the span [cx - h(y), cx + h(y)] of a row y of the extent,
\* h(y) = floor(profile(rel_y) * maxHalfWidth)
InProfileSpan(w, h, p) ==
    /\ p[2] \in Extent(h)
    /\ center_x(w) - FloorOf(width_factor(h, p[2]), half_width(w)) <= p[1]
    /\ p[1] <= center_x(w) + FloorOf(width_factor(h, p[2]), half_width(w))

\* C14: after the first pass a texel has the main fill colour exactly when
\* it lies in the profile span of a row of the extent; every other texel is
\* transparent.
FillPostcondition ==
    AfterFill =>
        \A p \in Texels(width, height) :
            Pixel(img, p) = IF InProfileSpan(width, height, p)
                            THEN blood_main ELSE transparent

(***************************************************************************)
(* C15 What the second pass leaves in a carved row                         *)
(***************************************************************************)
\* rows in which the second pass writes
CarvedRows(w, h) == {p[2] : p \in AllGapSpans(w, h)}

\* filled columns of row y
FilledColumns(im, w, y) == {x \in 0 .. w - 1 : Alpha(Pixel(im, <<x, y>>)) > 0}

\* C15: after the second pass, in every carved row (both rows of each tread
\* gap) the filled texels are exactly the 2 leftmost and the 2 rightmost
\* texels of that row's own silhouette span.
CarveLeavesTwo ==
    AfterCarve =>
        \A y \in CarvedRows(width, height) :
            FilledColumns(img, width, y)
              = {x_left(width, height, y), x_left(width, height, y) + 1,
                 x_right(width, height, y) - 1, x_right(width, height, y)}

(***************************************************************************)
(* C16 Tread gaps near the margins                                         *)
(***************************************************************************)
\* rows written by the step just taken
WrittenRows == {wr[2] : wr \in lastWrites}

\* rows the second pass must leave alone
NearMargin(h, y) == y < sole_top + 3 \/ y >= sole_bottom(h) - 2

\* C16: a step of the second pass writes no row y < sole_top + 3 or
\* y >= sole_bottom - 2 and writes either all tread_gap rows of its gap or
\* none; after the second pass every texel of such a row is as the first
\* pass produced it.
TreadGapsWhole ==
    script = "generate" =>
        /\ lastPass = 2 =>
              /\ \A y \in WrittenRows : ~NearMargin(height, y)
              /\ Cardinality(WrittenRows) \in {0, tread_gap}
        /\ AfterCarve =>
              \A p \in Texels(width, height) :
                  NearMargin(height, p[2]) =>
                      Pixel(img, p) = IF p \in Filled1(width, height)
                                      THEN blood_main ELSE transparent

\* the second pass has just cleared a gap, in both of its rows, and the
\* next tread row would not fit before the bottom margin
TreadGapsWitness ==
    /\ script = "generate" /\ lastPass = 2 /\ pc = "carve"
    /\ Cardinality(WrittenRows) = tread_gap
    /\ row >= tread_end(height)

(***************************************************************************)
(* C17 Postcondition of the third pass                                     *)
(***************************************************************************)
\* the third pass has finished and the fourth has not started
AfterShade == script = "generate" /\ pc = "seed"

\* the 2 outermost columns on each side of the first-pass span of row y
EdgeColumns(w, h, y) ==
    {x_left(w, h, y) + o : o \in 0 .. edge_width - 1}
    \cup {x_right(w, h, y) - o : o \in 0 .. edge_width - 1}

\* C17: every texel the third pass writes had a nonzero alpha and keeps its
\* alpha; after the pass a texel has the edge colour exactly when it is
\* filled and in one of the 2 outermost columns on either side of its row's
\* first-pass span, every other filled texel has the main colour, and every
\* texel that was transparent after carving is transparent.
ShadePostcondition ==
    script = "generate" =>
        /\ lastPass = 3 =>
              \A wr \in lastWrites :
                  /\ Alpha(wr[3]) > 0
                  /\ Alpha(Pixel(img, <<wr[1], wr[2]>>)) = Alpha(wr[3])
        /\ AfterShade =>
              \A p \in Texels(width, height) :
                  Pixel(img, p) =
                      IF p \in Filled1(width, height) \ AllGapSpans(width, height)
                      THEN IF p[1] \in EdgeColumns(width, height, p[2])
                           THEN blood_edge ELSE blood_main
                      ELSE transparent

\* the third pass has finished on a canvas where carving cleared a texel in
\* an edge column, and that texel is still transparent
ShadeWitness ==
    /\ AfterShade
    /\ \E p \in AllGapSpans(width, height) \cap Filled1(width, height) :
          /\ p[1] \in EdgeColumns(width, height, p[2])
          /\ Pixel(img, p) = transparent
    /\ \E p \in Texels(width, height) : Pixel(img, p) = blood_edge

(***************************************************************************)
(* C18 Number of candidates and of droplets                                *)
(***************************************************************************)
\* texels holding a droplet
Droplets(im, w, h) == {p \in Texels(w, h) : Pixel(im, p) = droplet}

MainRGB(c) == c[1] = blood_main[1] /\ c[2] = blood_main[2] /\ c[3] = blood_main[3]

\* C19: a texel the fourth pass has just written holds the main colour's
\* red, green and blue with alpha 150, strictly between 0 and 255; in the
\* finished buffer every texel is transparent (alpha 0), solid (alpha 255)
\* or such a droplet.
DropletColour ==
    script = "generate" =>
        /\ lastPass = 4 =>
              \A wr \in lastWrites :
                  /\ MainRGB(Pixel(img, <<wr[1], wr[2]>>))
                  /\ Alpha(Pixel(img, <<wr[1], wr[2]>>)) = 150
                  /\ 0 < Alpha(Pixel(img, <<wr[1], wr[2]>>))
                  /\ Alpha(Pixel(img, <<wr[1], wr[2]>>)) < 255
        /\ Finished =>
              \A p \in Texels(width, height) :
                  \/ Alpha(Pixel(img, p)) \in {0, 255}
                  \/ MainRGB(Pixel(img, p)) /\ Alpha(Pixel(img, p)) = 150

\* a finished buffer holding a droplet beside a solid sole
DropletColourWitness ==
    /\ Finished
    /\ Droplets(img, width, height) # {}
    /\ Solid(img, width, height) # {}

(***************************************************************************)
(* C20 Droplets lie near an edge of the sole                               *)
(***************************************************************************)
Abs(a) == IF a >= 0 THEN a ELSE -a

\* texel <<x, y>> is at most max_dist columns and rows away from the left
\* (s = -1) or right (s = 1) edge position of row b
NearEdge(w, h, x, y, b, s) ==
    /\ Abs(x - (center_x(w) + s * actual_half(w, h, b))) <= max_dist
    /\ Abs(y - b) <= max_dist

\* C20: every texel the fourth pass commits lies at most 4 columns and at
\* most 4 rows away from the edge position (cx - h(b), b) or (cx + h(b), b)
\* of some row b of the extent.
DropletNearEdge ==
    script = "generate" /\ lastPass = 4 =>
        \A wr \in lastWrites :
            \E b \in Extent(height) : \E s \in {-1, 1} :
                NearEdge(width, height, wr[1], wr[2], b, s)

\* a droplet committed exactly 4 columns away from an edge position of the
\* first row of a sole
DropletNearEdgeWitness ==
    /\ script = "generate" /\ lastPass = 4
    /\ Solid(img, width, height) # {}
    /\ \E wr \in lastWrites : \E s \in {-1, 1} :
          /\ NearEdge(width, height, wr[1], wr[2], sole_top, s)
          /\ Abs(wr[1] - (center_x(width) + s * actual_half(width, height, sole_top)))
                = max_dist

(***************************************************************************)
(* C21 Buffer lifecycle                                                    *)
(***************************************************************************)
\* one step of generate_boot_print.py keeps to the lifecycle of the buffers
LifecycleStep ==
    /\ pc = "new" => \A p \in Texels(width, height) : Pixel(img', p) = transparent
    /\ img # NoImage /\ img' # img =>
          /\ pc \in {"fill", "carve", "shade", "splatter"}
          /\ lastPass' = PassOf(pc)
          /\ RightFile \notin DOMAIN files
    /\ RightFile \in DOMAIN files =>
          /\ img' = img
          /\ files'[RightFile] = files[RightFile]
    /\ pc = "mirror" => img' = img /\ left' # NoImage
    /\ left # NoImage => left' = left

\* C21: each buffer is created fully transparent, is changed only by steps of
\* the four passes, and is never changed once it has been saved; the mirror
\* step leaves the right buffer as it is and gives a buffer of its own, so
\* the left file holds the mirror image of exactly what the right file holds.
BufferLifecycle ==
    /\ [][script = "generate" => LifecycleStep]_vars
    /\ [](script = "generate" /\ RightFile \in DOMAIN files
            => files[RightFile] = img)
    /\ [](script = "generate" /\ BothFiles =>
            /\ files[LeftFile] = left
            /\ IsMirror(files[LeftFile], files[RightFile], width, height))

\* both files are written from two different buffers, the right one holding
\* a droplet
BufferLifecycleWitness ==
    /\ script = "generate" /\ pc = "done" /\ BothFiles
    /\ files[RightFile] = img /\ files[LeftFile] = left /\ left # img
    /\ Droplets(img, width, height) # {}

(***************************************************************************)
(* C22 convert_to_dark preserves transparency                              *)
(***************************************************************************)
\* the pixel loop of convert_to_dark has visited texel p
Visited(p) == p[2] < row \/ (p[2] = row /\ p[1] < col)

\* the input pixel i and the pixel o the converted sprite holds in its
\* place: same alpha, unchanged when the alpha is 0, and once the loop has
\* visited a pixel of alpha > 0, a grey of value at most 63
DarkPixelOk(i, o, visited) ==
    /\ o[4] = i[4]
    /\ i[4] = 0 => o = i
    /\ i[4] > 0 /\ visited => o[1] = o[2] /\ o[2] = o[3] /\ o[1] <= 63
    /\ ~visited => o = i

\* C22: for every input sprite, each pixel of the output of convert_to_dark
\* has the alpha of the input pixel, a pixel of alpha 0 is unchanged in all
\* four channels, and every pixel of alpha > 0 becomes a grey (r = g = b) of
\* value at most 63.
DarkPreservesTransparency ==
    script = "enemy" /\ pc \in {"e_loop", "done"} =>
        \A p \in Texels(width, height) :
            DarkPixelOk(ToRGBA(Pixel(image, p)), Pixel(img, p),
                        pc = "done" \/ Visited(p))

\* convert_to_dark returned a sprite with a darkened pixel of partial alpha,
\* a darkened opaque pixel, and a coloured pixel of alpha 0 left as it was
DarkWitness ==
    /\ script = "enemy" /\ pc = "done"
    /\ \E p, q, t \in Texels(width, height) :
          /\ Pixel(image, p) = <<50, 50, 50, 128>>
          /\ Pixel(img, p) = <<12, 12, 12, 128>>
          /\ Pixel(image, q) = GREEN_LIGHT
          /\ Pixel(img, q) = <<22, 22, 22, 255>>
          /\ Pixel(img, t) = <<35, 55, 35, 0>>

(***************************************************************************)
(* C23 The armband functions change only the armband columns               *)
(***************************************************************************)
\* the sprite an armband function was called with
Opened == IF caller = "main" THEN Convert(image) ELSE image

ArmbandColumns == armband_x_start .. armband_x_end
ArmbandReds == {RED_ARMBAND_DARK, RED_ARMBAND_MAIN, RED_ARMBAND_LIGHT}

\* C23: add_armband_to_left_arm and add_armband_to_right_arm change only
\* non-transparent pixels of columns 10 and 11: every pixel of another column
\* and every pixel of alpha 0 is unchanged, and when the function returns
\* every pixel of alpha > 0 in columns 10-11 is one of the three armband
\* reds.
ArmbandOnlyBand ==
    script \in ArmbandScripts /\ pc \in {"a_loop", "done", "raised"} =>
        \A p \in Texels(width, height) :
            LET i == Pixel(Opened, p)
                o == Pixel(img, p)
            IN  /\ p[1] \notin ArmbandColumns \/ ~NonTransparent(i) => o = i
                /\ o # i => o \in ArmbandReds
                /\ pc = "done" /\ p[1] \in ArmbandColumns /\ NonTransparent(i)
                      => o \in ArmbandReds

\* an armband function returned: a green of partial alpha in column 10 is
\* now the dark red, the empty pixel next to it in column 11 and the
\* non-transparent pixel in column 9 are as they were
ArmbandWitness ==
    /\ script \in ArmbandScripts /\ pc = "done"
    /\ \E y \in 0 .. height - 1 :
          /\ Pixel(Opened, <<armband_x_start, y>>) = <<35, 55, 35, 128>>
          /\ Pixel(img, <<armband_x_start, y>>) = RED_ARMBAND_DARK
          /\ Pixel(img, <<armband_x_end, y>>) = transparent
          /\ Pixel(img, <<armband_x_start - 1, y>>) = <<0, 72, 24, 200>>

(***************************************************************************)
(* C24 Palette closure                                                     *)
(***************************************************************************)
PaletteValues == {transparent, blood_main, blood_edge, droplet}

\* every texel of buffer im is a palette value, and has alpha 0 exactly
\* when it is the transparent value
InPalette(im) ==
    im # NoImage =>
        \A p \in Texels(width, height) :
            /\ Pixel(im, p) \in PaletteValues
            /\ Alpha(Pixel(im, p)) = 0 <=> Pixel(im, p) = transparent

NoClamping(w, h) ==
    \A y \in Extent(h) :
        /\ center_x(w) - actual_half(w, h, y) >= 0
        /\ center_x(w) + actual_half(w, h, y) <= w - 1

\* buffer im is symmetric about the centre column
SymmetricAboutCentre(im, w, h) ==
    \A y \in 0 .. h - 1 : \A d \in 0 .. w :
        center_x(w) - d >= 0 /\ center_x(w) + d < w
            => Pixel(im, <<center_x(w) - d, y>>) = Pixel(im, <<center_x(w) + d, y>>)

\* C25: up to the end of the first three passes, whenever no column clamping
\* occurred, the buffer is symmetric about the centre column cx = width // 2:
\* texel (cx - d, y) equals texel (cx + d, y) for every row y and every d
\* with both columns in bounds.
SymmetricBeforeSplatter ==
    /\ script = "generate" /\ pc \in {"fill", "carve", "shade", "seed"}
    /\ NoClamping(width, height)
    => SymmetricAboutCentre(img, width, height)

\* the first three passes are over, and the buffer holds fill, edge and
\* carved texels on both sides of the centre column
SymmetryWitness ==
    /\ AfterShade /\ NoClamping(width, height)
    /\ \E y \in Extent(height) : \E d \in 3 .. width :
          /\ center_x(width) - d >= 0 /\ center_x(width) + d < width
          /\ Pixel(img, <<center_x(width) - d, y>>) = blood_edge
          /\ Pixel(img, <<center_x(width) - d + 2, y>>) = blood_main
          /\ Pixel(img, <<center_x(width), y + 3>>) = transparent
          /\ Pixel(img, <<center_x(width) + d, y + 3>>) = blood_edge

(***************************************************************************)
(* C26 Margins before splatter, default canvas                             *)
(***************************************************************************)
\* create_boot_print runs on the default 32x48 canvas and has not yet
\* reached the fourth pass
DefaultBeforeSplatter ==
    /\ script = "generate" /\ pc \in {"fill", "carve", "shade", "seed"}
    /\ width = DefaultWidth /\ height = DefaultHeight

\* C26: through the first three passes on the default 32x48 canvas every
\* filled texel lies in columns [margin_x, width - margin_x) and rows
\* [margin_y, height - margin_y), which leaves a transparent border of 3
\* columns on the left and on the right and of 3 rows at the top and at the
\* bottom.
MarginsHalfOpen ==
    DefaultBeforeSplatter =>
        \A p \in Filled(img, width, height) :
            /\ margin_x <= p[1] /\ p[1] < width - margin_x
            /\ margin_y <= p[2] /\ p[2] < height - margin_y

(***************************************************************************)
(* C27 Droplets and the silhouette                                         *)
(***************************************************************************)
\* C27: no droplet is ever committed at a texel inside the outline the first
\* pass filled, the texels the second pass carved into tread gaps included.
DropletsOutsideSilhouette ==
    script = "generate" /\ lastPass = 4 =>
        \A wr \in lastWrites : <<wr[1], wr[2]>> \notin Filled1(width, height)

(***************************************************************************)
(* C28 The connecting-pixel loop of the rounded variant                    *)
(***************************************************************************)
\* width of the connecting span by section: ball and toe, between arch and
\* ball, arch, heel
SectionWidth(y) ==
    IF y <= start_y + 6 THEN 6
    ELSE IF y <= start_y + boot_height - heel_height - arch_height + 1 THEN 4
    ELSE IF y <= start_y + boot_height - heel_height THEN 3
    ELSE 5

\* the last step was an iteration of the connecting-pixel loop, for row - 1
ConnectRowDone == script = "rounded" /\ pc = "r_connect" /\ lastPass = 6

\* C28: the connecting-pixel loop of the rounded create_boot_print writes
\* only inside the canvas, only in rows start_y + 3 .. start_y + boot_height
\* - 3, the same texels for is_left = True and is_left = False, and in each
\* row the span [cx - width // 2, cx + width // 2] with width 6, 4, 3 or 5
\* by the section of the row.
ConnectWrites ==
    ConnectRowDone =>
        /\ row - 1 \in start_y + 3 .. start_y + boot_height - 3
        /\ {<<wr[1], wr[2]>> : wr \in lastWrites}
             = {<<x, row - 1>> : x \in (cx - SectionWidth(row - 1) \div 2) ..
                                      (cx + SectionWidth(row - 1) \div 2)}
        /\ \A wr \in lastWrites :
              InBounds(CANVAS_WIDTH, CANVAS_HEIGHT, wr[1], wr[2])

\* the call with is_left = False has written the three texels of an arch
\* row, after the call with is_left = True returned
ConnectWitness ==
    /\ ConnectRowDone /\ left # NoImage
    /\ SectionWidth(row - 1) = 3
    /\ Cardinality(lastWrites) = 3

====
